---- MODULE Spec2Model ----
(***************************************************************************)
(* Model of release.py: the release helper script.  One run of main() is   *)
(* a sequential walk through the script; every git invocation, prompt and  *)
(* file access is a step.  Strings are sequences of tokens (a word, a      *)
(* separator or a decimal digit), so that formatting a version with an     *)
(* f-string and parsing it again with AwesomeVersion are real conversions. *)
(***************************************************************************)
EXTENDS Integers, Sequences, FiniteSets, TLC

\* ------------------------------------------------------------------------
\* Bounds of the explored environments
\* ------------------------------------------------------------------------
MaxMajor == 1
MaxMinor == 1
MaxBeta == 2
MaxTags == 1
MaxDirs == 2
MaxPrompts == 1
MaxPatch == 1

\* ------------------------------------------------------------------------
\* Strings
\* ------------------------------------------------------------------------
Digits == <<"0", "1", "2", "3", "4", "5", "6", "7", "8", "9">>

IsDigit(c) == \E i \in 1..10 : Digits[i] = c

DigitVal(c) == CHOOSE i \in 0..9 : Digits[i + 1] = c

IsNumber(s) == Len(s) > 0 /\ \A i \in 1..Len(s) : IsDigit(s[i])

\* str(n) of a non-negative int, as the f-strings of determine_next_version
\* render it
RECURSIVE IntToStr(_)
IntToStr(n) ==
    IF n < 10 THEN <<Digits[n + 1]>>
    ELSE IntToStr(n \div 10) \o <<Digits[(n % 10) + 1]>>

\* int(s) of a string of decimal digits
RECURSIVE StrToInt(_)
StrToInt(s) ==
    IF Len(s) = 1 THEN DigitVal(s[1])
    ELSE 10 * StrToInt(SubSeq(s, 1, Len(s) - 1)) + DigitVal(s[Len(s)])

\* s.split(sep): the list of the pieces of s between occurrences of sep
RECURSIVE Split(_, _)
Split(s, sep) ==
    IF \A i \in 1..Len(s) : s[i] # sep THEN <<s>>
    ELSE LET k == CHOOSE i \in 1..Len(s) :
                      s[i] = sep /\ \A j \in 1..(i - 1) : s[j] # sep
         IN <<SubSeq(s, 1, k - 1)>> \o Split(SubSeq(s, k + 1, Len(s)), sep)

\* s[1:]
Tail1(s) == IF Len(s) = 0 THEN s ELSE Tail(s)

StartsWith(s, p) == Len(s) >= Len(p) /\ SubSeq(s, 1, Len(p)) = p

\* the longest prefix of s made of digits
RECURSIVE LeadingDigits(_)
LeadingDigits(s) ==
    IF Len(s) = 0 \/ ~IsDigit(s[1]) THEN <<>>
    ELSE <<s[1]>> \o LeadingDigits(Tail(s))

\* ------------------------------------------------------------------------
\* Program constants
\* ------------------------------------------------------------------------
MASTER == <<"master">>

DEV == <<"dev">>

RELEASE_PREFIX == <<"release", "/">>

ReleaseType == {"MAJOR", "MINOR", "PATCH", "BETA"}

\* a local variable of main() that no assignment has reached yet
Unbound == <<"<unbound>">>

NoType == "<unbound>"

\* ------------------------------------------------------------------------
\* AwesomeVersion, as release.py uses it
\* ------------------------------------------------------------------------
\* the part of the third section after its digits ("b2" in "1.0.0b2")
Modifier(version) ==
    LET secs == Split(version, ".")
    IN IF Len(secs) # 3 THEN <<>>
       ELSE SubSeq(secs[3], Len(LeadingDigits(secs[3])) + 1, Len(secs[3]))

\* AwesomeVersion(...).valid for the version strings of this project:
\* MAJOR.MINOR.PATCH with an optional bN
Valid(version) ==
    LET secs == Split(version, ".")
    IN /\ Len(secs) = 3
       /\ IsNumber(secs[1])
       /\ IsNumber(secs[2])
       /\ IsNumber(LeadingDigits(secs[3]))
       /\ \/ Modifier(version) = <<>>
          \/ /\ Modifier(version)[1] = "b"
             /\ IsNumber(Tail(Modifier(version)))

Major(version) == Split(version, ".")[1]

Minor(version) == Split(version, ".")[2]

Patch(version) == LeadingDigits(Split(version, ".")[3])

\* AwesomeVersion.beta is a bool: whether the modifier is a beta modifier
Beta(version) == Modifier(version) # <<>> /\ Modifier(version)[1] = "b"

\* int(True) = 1, int(False) = 0
BoolToInt(b) == IF b THEN 1 ELSE 0

\* the ordinal of the beta modifier, used by the ordering only
BetaOrdinal(version) == StrToInt(Tail(Modifier(version)))

\* AwesomeVersion.__lt__: sections first, then a version with a modifier is
\* lower than the same version without one
VersionLess(a, b) ==
    LET ma == StrToInt(Major(a))
        mb == StrToInt(Major(b))
        na == StrToInt(Minor(a))
        nb == StrToInt(Minor(b))
        pa == StrToInt(Patch(a))
        pb == StrToInt(Patch(b))
    IN IF ma # mb THEN ma < mb
       ELSE IF na # nb THEN na < nb
       ELSE IF pa # pb THEN pa < pb
       ELSE IF Beta(a) /\ Beta(b) THEN BetaOrdinal(a) < BetaOrdinal(b)
       ELSE Beta(a) /\ ~Beta(b)

\* a minor bump that forgets to reset the patch number
determine_next_version_KeepsPatch(version, release_type) ==
    CASE release_type = "MAJOR" ->
           IntToStr(StrToInt(Major(version)) + 1) \o <<".", "0", ".", "0">>
      [] release_type = "MINOR" ->
           Major(version) \o <<".">>
             \o IntToStr(StrToInt(Minor(version)) + 1) \o <<".">> \o Patch(version)
      [] release_type = "PATCH" ->
           Major(version) \o <<".">> \o Minor(version) \o <<".">>
             \o IntToStr(StrToInt(Patch(version)) + 1)
      [] release_type = "BETA" ->
           Major(version) \o <<".">> \o Minor(version) \o <<".">>
             \o Patch(version) \o <<"b">>
             \o IntToStr(BoolToInt(Beta(version)) + 1)

determine_next_version(version, release_type) ==
    CASE release_type = "MAJOR" ->
           IntToStr(StrToInt(Major(version)) + 1) \o <<".", "0", ".", "0">>
      [] release_type = "MINOR" ->
           Major(version) \o <<".">>
             \o IntToStr(StrToInt(Minor(version)) + 1) \o <<".", "0">>
      [] release_type = "PATCH" ->
           Major(version) \o <<".">> \o Minor(version) \o <<".">>
             \o IntToStr(StrToInt(Patch(version)) + 1)
      [] release_type = "BETA" ->
           Major(version) \o <<".">> \o Minor(version) \o <<".">>
             \o Patch(version) \o <<"b">>
             \o IntToStr(BoolToInt(Beta(version)) + 1)

\* ------------------------------------------------------------------------
\* Branch
\* ------------------------------------------------------------------------
is_dev_Any(name) == TRUE

is_dev(name) == name = DEV

is_release(name) == StartsWith(name, RELEASE_PREFIX)

\* Branch defines no __eq__: comparing a Branch object with a str falls back
\* to identity, which is False for every branch name
BranchEqualsStr(name, s) == FALSE

\* ------------------------------------------------------------------------
\* The environments a run can start in
\* ------------------------------------------------------------------------
VersionString(major, minor, patch, beta) ==
    IntToStr(major) \o <<".">> \o IntToStr(minor) \o <<".">> \o IntToStr(patch)
      \o (IF beta = 0 THEN <<>> ELSE <<"b">> \o IntToStr(beta))

KnownVersions ==
    {VersionString(ma, mi, 0, b) :
        ma \in 1..MaxMajor, mi \in 0..MaxMinor, b \in 0..MaxBeta}

FinalVersions == {v \in KnownVersions : ~Beta(v)}

SENTINEL == <<"0", ".", "0", ".", "0">>

TagOf(version) == <<"v">> \o version

ReleaseBranchOf(version) == RELEASE_PREFIX \o version

\* a tag that git tag -l "v*" lists and that is not a version
INVALID_TAG == <<"v", "next">>

FEATURE == <<"feature", "/", "x">>

StartBranches == {DEV, MASTER, FEATURE} \cup {ReleaseBranchOf(v) : v \in FinalVersions}

Answers == {"y", "n"}

TypeInputs == {"1", "2", "3", "4", "5", "x"}

\* ------------------------------------------------------------------------
\* State
\* ------------------------------------------------------------------------
VARIABLES
    pc,                     \* the line of main() the run is at, or "done"
    exit_code,              \* -1 while running, then the process exit code
    error,                  \* what ended the run: "none", "exit" or the exception
    error_line,             \* the line of release.py that ended the run, 0 if none
    log,                    \* every external operation of the run, in order
    prompts,                \* release-type prompts answered with invalid input
    branch,                 \* main(): branch.name
    last_released_version,  \* main() local
    release_type,           \* main() local
    current_version,        \* main() local
    next_version,           \* main() local
    release_branch_name,    \* main() local
    tag_name,               \* main() local
    cur,                    \* git: the checked-out branch
    branches,               \* git: the local branches
    tags,                   \* git: the local tags
    remote_tags,            \* git: the tags on origin
    remote_branches,        \* git: the branches pushed to origin by this run
    committed,              \* git: manifest version at the head of each branch
    commits,                \* git: the commits made by this run
    tagged,                 \* git: where the tag created by this run points
    manifest,               \* manifest.json in the workarea: its "version"
    dirty,                  \* git status --porcelain is not empty
    staged,                 \* the workarea changes are in the index
    dirs,                   \* number of directories below custom_components
    pre                     \* the repository and manifest before the run

ctlVars == <<pc, exit_code, error, error_line, log, prompts>>

localVars == <<branch, last_released_version, release_type, current_version,
               next_version, release_branch_name, tag_name>>

gitVars == <<cur, branches, tags, remote_tags, remote_branches, committed,
             commits, tagged, manifest, dirty, staged>>

envVars == <<dirs, pre>>

vars == <<ctlVars, localVars, gitVars, envVars>>

NoTag == [name |-> Unbound, on |-> Unbound, version |-> Unbound]

Snapshot == [cur |-> cur, branches |-> branches, tags |-> tags,
             committed |-> committed, commits |-> commits, manifest |-> manifest,
             dirty |-> dirty, remote_tags |-> remote_tags]

\* ------------------------------------------------------------------------
\* Init: the state when main() is entered
\* ------------------------------------------------------------------------
Init ==
    /\ pc = "L155"
    /\ exit_code = -1
    /\ error = "none"
    /\ error_line = 0
    /\ log = <<>>
    /\ prompts = 0
    /\ branch = Unbound
    /\ last_released_version = Unbound
    /\ release_type = NoType
    /\ current_version = Unbound
    /\ next_version = Unbound
    /\ release_branch_name = Unbound
    /\ tag_name = Unbound
    /\ cur \in StartBranches
    /\ \E extra \in {{}} \cup {{ReleaseBranchOf(v)} : v \in KnownVersions} :
          branches = {DEV, MASTER, cur} \cup extra
    /\ tags \in {T \in SUBSET ({TagOf(v) : v \in KnownVersions} \cup {INVALID_TAG}) :
                    Cardinality(T) <= MaxTags}
    /\ remote_tags \in {{}} \cup {{TagOf(v)} : v \in FinalVersions}
    /\ remote_branches = {}
    /\ manifest \in {SENTINEL, VersionString(1, 0, 0, 0)}
    /\ committed = [b \in branches |-> manifest]
    /\ commits = <<>>
    /\ tagged = NoTag
    /\ dirty \in BOOLEAN
    /\ staged = FALSE
    /\ dirs \in 0..MaxDirs
    /\ pre = Snapshot

\* ------------------------------------------------------------------------
\* Helpers of the steps
\* ------------------------------------------------------------------------
Entry(op, arg, answer) == [op |-> op, arg |-> arg, answer |-> answer]

Logged(op, arg) == Append(log, Entry(op, arg, ""))

\* a run that ends early and reports success
Stop_ExitZero(err, line) ==
    /\ pc' = "done"
    /\ exit_code' = 0
    /\ error' = err
    /\ error_line' = line

\* the run ends at `line`: exit(1), or an exception nobody catches
Stop(err, line) ==
    /\ pc' = "done"
    /\ exit_code' = 1
    /\ error' = err
    /\ error_line' = line

Goto(line) ==
    /\ pc' = line
    /\ UNCHANGED <<exit_code, error, error_line>>

workarea_is_clean_Always == TRUE

\* Git.workarea_is_clean(): git status --porcelain prints nothing
workarea_is_clean == ~dirty

Affirmed_Always(answer) == TRUE

\* the test of both confirmations (lines 187 and 210): only "y" goes on
Affirmed(answer) == answer = "y"

MergesToMaster_Always(rt) == TRUE

\* the test of line 202: every release but a beta is merged to master
MergesToMaster(rt) == rt # "BETA"

RECURSIVE SetToSeq(_)
SetToSeq(S) ==
    IF S = {} THEN <<>>
    ELSE LET x == CHOOSE y \in S : TRUE
         IN <<x>> \o SetToSeq(S \ {x})

\* the output of git tag -l "v*", split at the newlines: one piece per tag
\* and an empty piece after the last newline
TagLines(tagset) ==
    SetToSeq({t \in tagset : StartsWith(t, <<"v">>)}) \o << <<>> >>

\* the valid versions in the order git lists the tags, never sorted
get_versions_Unsorted(tagset) ==
    LET lines == TagLines(tagset)
        stripped == [i \in 1..Len(lines) |-> Tail1(lines[i])]
    IN SelectSeq(stripped, Valid)

\* a list of versions that is seeded with 0.0.0 when no tag is a version
get_versions_Seeded(tagset) ==
    LET lines == TagLines(tagset)
        stripped == [i \in 1..Len(lines) |-> Tail1(lines[i])]
        found == SortSeq(SelectSeq(stripped, Valid), VersionLess)
    IN IF Len(found) = 0 THEN <<SENTINEL>> ELSE found

get_versions(tagset) ==
    LET lines == TagLines(tagset)
        stripped == [i \in 1..Len(lines) |-> Tail1(lines[i])]
    IN SortSeq(SelectSeq(stripped, Valid), VersionLess)

\* what git checkout <name> does to the repository: nothing when no branch
\* has that name (the failure is not looked at)
Checkout(name) ==
    IF name \in branches
    THEN /\ cur' = name
         /\ manifest' = committed[name]
    ELSE UNCHANGED <<cur, manifest>>

\* what git push origin <name> does: it sends the branch or tag of that name
Push(name) ==
    /\ remote_branches' =
          IF name \in branches THEN remote_branches \cup {name} ELSE remote_branches
    /\ remote_tags' =
          IF name \in tags THEN remote_tags \cup {name} ELSE remote_tags

\* ------------------------------------------------------------------------
\* The steps of main()
\* ------------------------------------------------------------------------
\* line 155: branch = Git.get_current_branch()
GetCurrentBranch ==
    /\ pc = "L155"
    /\ branch' = cur
    /\ log' = Logged("branch --show-current", <<>>)
    /\ Goto("L157")
    /\ UNCHANGED <<prompts, last_released_version, release_type, current_version,
                   next_version, release_branch_name, tag_name, gitVars, envVars>>

\* lines 157-159: a dirty workarea ends the run
CheckWorkarea ==
    /\ pc = "L157"
    /\ log' = Logged("status", <<>>)
    /\ IF ~workarea_is_clean THEN Stop("exit", 159) ELSE Goto("L161")
    /\ UNCHANGED <<prompts, localVars, gitVars, envVars>>

\* line 161: Git.fetch_tags()
FetchTags ==
    /\ pc = "L161"
    /\ log' = Logged("fetch --tags", <<>>)
    /\ tags' = tags \cup remote_tags
    /\ Goto("L163")
    /\ UNCHANGED <<prompts, localVars, cur, branches, remote_tags, remote_branches,
                   committed, commits, tagged, manifest, dirty, staged, envVars>>

\* lines 163-164: on dev, the last released version is the greatest tag
GetLastReleasedVersion ==
    /\ pc = "L163"
    /\ IF is_dev(branch)
       THEN LET versions == get_versions(tags)
            IN /\ log' = Logged("tag -l", <<>>)
               /\ IF Len(versions) = 0
                  THEN /\ Stop("IndexError", 151)
                       /\ UNCHANGED last_released_version
                  ELSE /\ last_released_version' = versions[Len(versions)]
                       /\ Goto("L165")
       ELSE /\ Goto("L170")
            /\ UNCHANGED <<log, last_released_version>>
    /\ UNCHANGED <<prompts, branch, release_type, current_version, next_version,
                   release_branch_name, tag_name, gitVars, envVars>>

\* line 165, get_release_type(): ask until the answer is 1, 2, 3 or 4
GetReleaseType ==
    /\ pc = "L165"
    /\ \E str_choice \in TypeInputs :
         /\ log' = Append(log, Entry("input type", <<>>, str_choice))
         /\ IF ~IsDigit(str_choice)
            THEN \* ValueError: "please enter a number", ask again
                 /\ prompts < MaxPrompts
                 /\ prompts' = prompts + 1
                 /\ Goto("L165")
                 /\ UNCHANGED release_type
            ELSE LET choice == DigitVal(str_choice)
                 IN IF choice \in 1..4
                    THEN /\ release_type' =
                               CASE choice = 1 -> "MAJOR"
                                 [] choice = 2 -> "MINOR"
                                 [] choice = 3 -> "PATCH"
                                 [] choice = 4 -> "BETA"
                         /\ Goto("L167")
                         /\ UNCHANGED prompts
                    ELSE /\ prompts < MaxPrompts
                         /\ prompts' = prompts + 1
                         /\ Goto("L165")
                         /\ UNCHANGED release_type
    /\ UNCHANGED <<branch, last_released_version, current_version, next_version,
                   release_branch_name, tag_name, gitVars, envVars>>

\* line 167: next_version on the dev path
DetermineNextVersion ==
    /\ pc = "L167"
    /\ next_version' = determine_next_version(last_released_version, release_type)
    /\ Goto("L170")
    /\ UNCHANGED <<log, prompts, branch, last_released_version, release_type,
                   current_version, release_branch_name, tag_name, gitVars, envVars>>

\* lines 170-176: on a release branch, the version to bump is the manifest's,
\* or the branch's when the manifest holds 0.0.0.  release_type is read at
\* line 175 although only the dev path assigns it.
ResolveOnReleaseBranch ==
    /\ pc = "L170"
    /\ IF is_release(branch)
       THEN IF dirs # 1
            THEN \* get_integration_name() raises
                 /\ log' = Logged("listdir", <<>>)
                 /\ Stop("ValueError", 125)
                 /\ UNCHANGED <<current_version, next_version>>
            ELSE /\ log' = Append(Logged("listdir", <<>>),
                                  Entry("read manifest", manifest, ""))
                 /\ current_version' =
                       IF manifest = SENTINEL THEN Split(branch, "/")[2]
                       ELSE manifest
                 /\ IF release_type = NoType
                    THEN /\ Stop("UnboundLocalError", 175)
                         /\ UNCHANGED next_version
                    ELSE /\ next_version' =
                               determine_next_version(current_version', release_type)
                         /\ Goto("L178")
       ELSE /\ Goto("L186")
            /\ UNCHANGED <<log, current_version, next_version>>
    /\ UNCHANGED <<prompts, branch, last_released_version, release_type,
                   release_branch_name, tag_name, gitVars, envVars>>

\* lines 178-183 and 186-188: show the previous version and ask whether the
\* next version is right; any answer but "y" ends the run
ConfirmIntent ==
    /\ pc \in {"L178", "L186"}
    /\ IF last_released_version = Unbound
       THEN /\ Stop("UnboundLocalError", IF pc = "L178" THEN 178 ELSE 186)
            /\ UNCHANGED <<log, release_branch_name, tag_name>>
       ELSE \E answer \in Answers :
              /\ log' = Append(Logged("print previous", last_released_version),
                               Entry("input confirm", next_version, answer))
              /\ IF ~Affirmed(answer)
                 THEN /\ Stop("exit", IF pc = "L178" THEN 180 ELSE 188)
                      /\ UNCHANGED <<release_branch_name, tag_name>>
                 ELSE IF pc = "L178"
                      THEN /\ release_branch_name' = RELEASE_PREFIX \o next_version
                           /\ tag_name' = <<"v">> \o next_version
                           /\ Goto("L186")
                      ELSE /\ Goto("L190")
                           /\ UNCHANGED <<release_branch_name, tag_name>>
    /\ UNCHANGED <<prompts, branch, last_released_version, release_type,
                   current_version, next_version, gitVars, envVars>>

\* lines 190-196: name the release branch and the tag, and check the release
\* branch out when the run is not on it
SelectReleaseBranch ==
    /\ pc = "L190"
    /\ release_branch_name' = RELEASE_PREFIX \o next_version
    /\ tag_name' = <<"v">> \o next_version
    /\ IF branch # release_branch_name'
       THEN /\ log' = Logged("checkout", release_branch_name')
            /\ Checkout(release_branch_name')
       ELSE UNCHANGED <<log, cur, manifest>>
    /\ Goto("L198")
    /\ UNCHANGED <<prompts, branch, last_released_version, release_type,
                   current_version, next_version, branches, tags, remote_tags,
                   remote_branches, committed, commits, tagged, dirty, staged,
                   envVars>>

\* line 198, update_manifest_version_number(): needs the one directory below
\* custom_components, then rewrites the manifest with str(version)
UpdateManifest ==
    /\ pc = "L198"
    /\ IF dirs # 1
       THEN /\ log' = Logged("listdir", <<>>)
            /\ Stop("ValueError", 125)
            /\ UNCHANGED <<manifest, dirty>>
       ELSE /\ log' = Append(Logged("listdir", <<>>),
                             Entry("write manifest", next_version, ""))
            /\ manifest' = next_version
            /\ dirty' = (next_version # committed[cur])
            /\ Goto("L199")
    /\ UNCHANGED <<prompts, localVars, cur, branches, tags, remote_tags,
                   remote_branches, committed, commits, tagged, staged, envVars>>

\* line 199: git add --all
AddChanges ==
    /\ pc = "L199"
    /\ log' = Logged("add", <<>>)
    /\ staged' = dirty
    /\ Goto("L200")
    /\ UNCHANGED <<prompts, localVars, cur, branches, tags, remote_tags,
                   remote_branches, committed, commits, tagged, manifest, dirty,
                   envVars>>

\* the message of line 200 is a plain string, not an f-string
COMMIT_MESSAGE == <<"Update version to ", "{next_version}">>

\* line 200: git commit; there is nothing to commit when nothing is staged
CommitChanges ==
    /\ pc = "L200"
    /\ log' = Logged("commit", COMMIT_MESSAGE)
    /\ IF staged
       THEN /\ committed' = [committed EXCEPT ![cur] = manifest]
            /\ commits' = Append(commits, [on |-> cur, message |-> COMMIT_MESSAGE,
                                           version |-> manifest])
            /\ dirty' = FALSE
            /\ staged' = FALSE
       ELSE UNCHANGED <<committed, commits, dirty, staged>>
    /\ Goto("L202")
    /\ UNCHANGED <<prompts, localVars, cur, branches, tags, remote_tags,
                   remote_branches, tagged, manifest, envVars>>

\* lines 202-204: unless the release is a beta, go to master
CheckoutMaster ==
    /\ pc = "L202"
    /\ IF MergesToMaster(release_type)
       THEN /\ log' = Logged("checkout", MASTER)
            /\ Checkout(MASTER)
            /\ Goto("L205")
       ELSE /\ Goto("L208")
            /\ UNCHANGED <<log, cur, manifest>>
    /\ UNCHANGED <<prompts, localVars, branches, tags, remote_tags,
                   remote_branches, committed, commits, tagged, dirty, staged,
                   envVars>>

\* line 205: git pull
Pull ==
    /\ pc = "L205"
    /\ log' = Logged("pull", <<>>)
    /\ Goto("L206")
    /\ UNCHANGED <<prompts, localVars, gitVars, envVars>>

\* line 206 hands git the one word "--strategy-option theirs"; git knows no
\* option of that name and refuses the command
MergeAccepted == FALSE

\* line 206: git merge --no-ff <release branch>; its exit status is not read
Merge ==
    /\ pc = "L206"
    /\ log' = Logged("merge", release_branch_name)
    /\ IF MergeAccepted /\ release_branch_name \in branches
       THEN /\ committed' = [committed EXCEPT ![cur] = committed[release_branch_name]]
            /\ manifest' = committed[release_branch_name]
       ELSE UNCHANGED <<committed, manifest>>
    /\ Goto("L208")
    /\ UNCHANGED <<prompts, localVars, cur, branches, tags, remote_tags,
                   remote_branches, commits, tagged, dirty, staged, envVars>>

\* line 208: git tag <tag_name> at the current position; git refuses a name
\* that is already a tag
CreateTag ==
    /\ pc = "L208"
    /\ log' = Logged("tag", tag_name)
    /\ IF tag_name \notin tags
       THEN /\ tags' = tags \cup {tag_name}
            /\ tagged' = [name |-> tag_name, on |-> cur, version |-> committed[cur]]
       ELSE UNCHANGED <<tags, tagged>>
    /\ Goto("L210")
    /\ UNCHANGED <<prompts, localVars, cur, branches, remote_tags,
                   remote_branches, committed, commits, manifest, dirty, staged,
                   envVars>>

\* lines 210-211: any answer but "y" ends the run
ConfirmPush ==
    /\ pc = "L210"
    /\ \E answer \in Answers :
         /\ log' = Append(log, Entry("input push", <<>>, answer))
         /\ IF ~Affirmed(answer) THEN Stop("exit", 211) ELSE Goto("L213")
    /\ UNCHANGED <<prompts, localVars, gitVars, envVars>>

\* lines 213-214: master is pushed when the Branch object equals "master"
PushMaster ==
    /\ pc = "L213"
    /\ IF BranchEqualsStr(cur, MASTER)
       THEN /\ log' = Append(Logged("branch --show-current", <<>>),
                             Entry("push", MASTER, ""))
            /\ Push(MASTER)
       ELSE /\ log' = Logged("branch --show-current", <<>>)
            /\ UNCHANGED <<remote_branches, remote_tags>>
    /\ Goto("L216")
    /\ UNCHANGED <<prompts, localVars, cur, branches, tags, committed, commits,
                   tagged, manifest, dirty, staged, envVars>>

\* line 216: git push origin <release branch>
PushReleaseBranch ==
    /\ pc = "L216"
    /\ log' = Logged("push", release_branch_name)
    /\ Push(release_branch_name)
    /\ Goto("L217")
    /\ UNCHANGED <<prompts, localVars, cur, branches, tags, committed, commits,
                   tagged, manifest, dirty, staged, envVars>>

\* line 217: git push origin <tag>
PushTag ==
    /\ pc = "L217"
    /\ log' = Logged("push", tag_name)
    /\ Push(tag_name)
    /\ Goto("L221")
    /\ UNCHANGED <<prompts, localVars, cur, branches, tags, committed, commits,
                   tagged, manifest, dirty, staged, envVars>>

\* line 221: back to the branch the run started on; main() returns
RestoreBranch ==
    /\ pc = "L221"
    /\ log' = Logged("checkout", branch)
    /\ Checkout(branch)
    /\ pc' = "done"
    /\ exit_code' = 0
    /\ UNCHANGED <<error, error_line>>
    /\ UNCHANGED <<prompts, localVars, branches, tags, remote_tags,
                   remote_branches, committed, commits, tagged, dirty, staged,
                   envVars>>

Next ==
    \/ GetCurrentBranch
    \/ CheckWorkarea
    \/ FetchTags
    \/ GetLastReleasedVersion
    \/ GetReleaseType
    \/ DetermineNextVersion
    \/ ResolveOnReleaseBranch
    \/ ConfirmIntent
    \/ SelectReleaseBranch
    \/ UpdateManifest
    \/ AddChanges
    \/ CommitChanges
    \/ CheckoutMaster
    \/ Pull
    \/ Merge
    \/ CreateTag
    \/ ConfirmPush
    \/ PushMaster
    \/ PushReleaseBranch
    \/ PushTag
    \/ RestoreBranch

Spec == Init /\ [][Next]_vars

\* ------------------------------------------------------------------------
\* determine_next_version on its own: one bump of a version, then a bump of
\* the result, as two releases in a row do it
\* ------------------------------------------------------------------------
ResolveInputs ==
    {VersionString(ma, mi, pa, b) :
        ma \in 0..MaxMajor, mi \in 0..MaxMinor, pa \in 0..MaxPatch, b \in 0..MaxBeta}
      \cup {VersionString(2, 3, 1, 0)}

InitResolve ==
    /\ pc = "resolve"
    /\ exit_code = -1
    /\ error = "none"
    /\ error_line = 0
    /\ log = <<>>
    /\ prompts = 0
    /\ branch = DEV
    /\ last_released_version \in ResolveInputs
    /\ release_type = NoType
    /\ current_version = Unbound
    /\ next_version = Unbound
    /\ release_branch_name = Unbound
    /\ tag_name = Unbound
    /\ cur = DEV
    /\ branches = {DEV, MASTER}
    /\ tags = {TagOf(last_released_version)}
    /\ remote_tags = {}
    /\ remote_branches = {}
    /\ manifest = SENTINEL
    /\ committed = [b \in branches |-> manifest]
    /\ commits = <<>>
    /\ tagged = NoTag
    /\ dirty = FALSE
    /\ staged = FALSE
    /\ dirs = 1
    /\ pre = Snapshot

\* line 167 with the release type of line 165
Resolve ==
    /\ pc = "resolve"
    /\ \E rt \in ReleaseType :
         /\ release_type' = rt
         /\ next_version' = determine_next_version(last_released_version, rt)
    /\ pc' = "resolved"
    /\ UNCHANGED <<exit_code, error, error_line, log, prompts, branch,
                   last_released_version, current_version, release_branch_name,
                   tag_name, gitVars, envVars>>

\* line 167 again, from the version the first bump gave
ResolveAgain ==
    /\ pc = "resolved"
    /\ current_version' = next_version
    /\ next_version' = determine_next_version(next_version, release_type)
    /\ pc' = "resolved twice"
    /\ UNCHANGED <<exit_code, error, error_line, log, prompts, branch,
                   last_released_version, release_type, release_branch_name,
                   tag_name, gitVars, envVars>>

NextResolve == Resolve \/ ResolveAgain

SpecResolve == InitResolve /\ [][NextResolve]_vars

TypeOK ==
    /\ exit_code \in {-1, 0, 1}
    /\ release_type \in ReleaseType \cup {NoType}
    /\ cur \in branches

\* ------------------------------------------------------------------------
\* Vocabulary of the properties
\* ------------------------------------------------------------------------
Did(op) == \E i \in 1..Len(log) : log[i].op = op

DidOn(op, arg) == \E i \in 1..Len(log) : log[i].op = op /\ log[i].arg = arg

MutatingOps ==
    {"checkout", "write manifest", "add", "commit", "pull", "merge", "tag", "push"}

NoMutation == \A i \in 1..Len(log) : log[i].op \notin MutatingOps

IntentAffirmed ==
    \E i \in 1..Len(log) : log[i].op = "input confirm" /\ log[i].answer = "y"

IntentDeclined ==
    \E i \in 1..Len(log) : log[i].op = "input confirm" /\ log[i].answer # "y"

PushAffirmed ==
    \E i \in 1..Len(log) : log[i].op = "input push" /\ log[i].answer = "y"

PushDeclined ==
    \E i \in 1..Len(log) : log[i].op = "input push" /\ log[i].answer # "y"

Ended == pc = "done"

Completed == pc = "done" /\ exit_code = 0

StartedOnDev == pre.cur = <<"dev">>

StartedOnRelease ==
    Len(pre.cur) >= 2 /\ pre.cur[1] = "release" /\ pre.cur[2] = "/"

\* ------------------------------------------------------------------------
\* Properties
\* ------------------------------------------------------------------------
\* C1: a run that made the version commit ends with the checkout of the
\* branch it started on, whatever happened in merge, tag, push confirmation
\* and publish.
C1_RestoreAlways ==
    (Ended /\ Did("commit")) =>
        (Len(log) > 0 /\ log[Len(log)] = Entry("checkout", branch, ""))

\* C2: after a completed run the tag v<next>, the branch release/<next> and
\* the manifest at the tagged commit all exist and name the next version.
C2_ArtifactsAgree ==
    Completed =>
        /\ tag_name = TagOf(next_version)
        /\ tag_name \in tags
        /\ release_branch_name = ReleaseBranchOf(next_version)
        /\ release_branch_name \in branches
        /\ committed[release_branch_name] = next_version
        /\ tagged.name = tag_name
        /\ tagged.version = next_version

\* C3: in a beta run master is never checked out, pulled, merged into or
\* pushed, in any state of the run.
C3_BetaNeverTouchesTrunk ==
    release_type = "BETA" =>
        /\ cur # MASTER
        /\ ~DidOn("checkout", MASTER)
        /\ ~Did("pull")
        /\ ~Did("merge")
        /\ ~DidOn("push", MASTER)
        /\ MASTER \notin remote_branches

C3_Witness == Completed /\ release_type = "BETA" /\ PushAffirmed

\* C4: a run whose push confirmation was affirmed has, when it ends, sent
\* the branch release/<next> and the tag v<next> to origin, both after the
\* tag command.
C4_PublishPushesBranchAndTag ==
    (Ended /\ PushAffirmed) =>
        /\ \E i, j, k \in 1..Len(log) :
              /\ i < j
              /\ i < k
              /\ log[i] = Entry("tag", TagOf(next_version), "")
              /\ log[j] = Entry("push", ReleaseBranchOf(next_version), "")
              /\ log[k] = Entry("push", TagOf(next_version), "")
        /\ ReleaseBranchOf(next_version) \in remote_branches
        /\ TagOf(next_version) \in remote_tags

\* C5: when a run ends, master has been pushed exactly if the release is
\* not a beta, the run merged to master and the push was affirmed.
C5_TrunkPushedExactlyWhenMerged ==
    Ended =>
        (DidOn("push", MASTER) <=>
            (release_type \in {"MAJOR", "MINOR", "PATCH"} /\ Did("merge")
               /\ PushAffirmed))

\* C6 (as stated): a declined first confirmation ends the run with a
\* non-zero exit and leaves manifest, branch, branches, commits and tags as
\* they were before the run; nothing was checked out, written, added,
\* committed, merged, tagged or pushed.
C6_DeclinedIntentLeavesAll ==
    IntentDeclined =>
        /\ Ended
        /\ exit_code = 1
        /\ NoMutation
        /\ Snapshot = pre

\* C6 (amended): as above, except that the local tags may have gained the
\* tags fetched from origin before the confirmation.
C6_DeclinedIntentLeavesAllButFetchedTags ==
    IntentDeclined =>
        /\ Ended
        /\ exit_code = 1
        /\ NoMutation
        /\ [Snapshot EXCEPT !.tags = pre.tags] = pre
        /\ pre.tags \subseteq tags
        /\ tags \subseteq pre.tags \cup remote_tags
        /\ remote_branches = {}

C6_Witness == IntentDeclined /\ Ended /\ tags # pre.tags

\* C7: a run started on a branch that is neither dev nor a release branch
\* never reaches a confirmation and changes nothing; it ends with a non-zero
\* exit, and when the workarea was clean what ends it is the missing
\* previous version at line 186.
C7_UnsupportedBranchFails ==
    (~StartedOnDev /\ ~StartedOnRelease) =>
        /\ NoMutation
        /\ ~Did("print previous")
        /\ ~Did("input confirm")
        /\ ~Did("input push")
        /\ [Snapshot EXCEPT !.tags = pre.tags] = pre
        /\ Ended => exit_code = 1
        /\ (Ended /\ ~pre.dirty) =>
              (error = "UnboundLocalError" /\ error_line = 186)

C7_Witness == Ended /\ pre.cur = FEATURE /\ ~pre.dirty /\ tags # {}

\* C8: a run started on a release branch (clean workarea, one component
\* directory) reaches the confirmation with the next version bumped from
\* the manifest version, or from the branch version when the manifest
\* holds 0.0.0.
C8_ReleaseBranchResolves ==
    (Ended /\ StartedOnRelease /\ ~pre.dirty /\ dirs = 1) =>
        /\ Did("input confirm")
        /\ release_type \in ReleaseType
        /\ next_version =
              determine_next_version(
                  IF pre.manifest = SENTINEL THEN Split(pre.cur, "/")[2]
                  ELSE pre.manifest,
                  release_type)

\* C9: when custom_components does not hold exactly one directory, a run on
\* dev or on a release branch is stopped before any version is resolved and
\* before any checkout, manifest write, commit, merge, tag or push.
C9_AmbiguousDirectoryStopsFirst ==
    (dirs # 1 /\ (StartedOnDev \/ StartedOnRelease)) =>
        /\ next_version = Unbound
        /\ NoMutation

\* C10: with a dirty workarea the run does the branch query and the status
\* query and nothing else, and ends with exit(1) at line 159.
C10_DirtyWorkareaStops ==
    pre.dirty =>
        /\ Len(log) <= 2
        /\ \A i \in 1..Len(log) : log[i].op \in {"branch --show-current", "status"}
        /\ pc \in {"L155", "L157", "done"}
        /\ Snapshot = pre
        /\ remote_branches = {}
        /\ last_released_version = Unbound
        /\ next_version = Unbound
        /\ Ended => (exit_code = 1 /\ error = "exit" /\ error_line = 159)

C10_Witness == Ended /\ pre.dirty /\ Did("status")

\* the version the last bump started from, in SpecResolve
BumpedFrom == IF pc = "resolved" THEN last_released_version ELSE current_version

Bumped == pc \in {"resolved", "resolved twice"}

\* the pre-release ordinal of a version, 0 for a final release
Ordinal(version) == IF Beta(version) THEN BetaOrdinal(version) ELSE 0

\* C11: a beta bump keeps major, minor and patch and gives the ordinal one
\* greater than the one of the version it starts from (1 when it has none).
C11_BetaBumpIncrementsOrdinal ==
    (Bumped /\ release_type = "BETA") =>
        /\ Valid(next_version)
        /\ Major(next_version) = Major(BumpedFrom)
        /\ Minor(next_version) = Minor(BumpedFrom)
        /\ Patch(next_version) = Patch(BumpedFrom)
        /\ Ordinal(next_version) = Ordinal(BumpedFrom) + 1

\* C12: a major, minor or patch bump gives (major+1).0.0, major.(minor+1).0
\* or major.minor.(patch+1) without pre-release ordinal, each greater than
\* the version it starts from, the major result above the minor result
\* above the patch result; 2.3.1 bumped by MINOR is 2.4.0.
C12_FinalBumpsOrdered ==
    (Bumped /\ release_type \in {"MAJOR", "MINOR", "PATCH"}) =>
        LET v == BumpedFrom
            ma == StrToInt(Major(v))
            mi == StrToInt(Minor(v))
            pa == StrToInt(Patch(v))
        IN /\ release_type = "MAJOR" => next_version = VersionString(ma + 1, 0, 0, 0)
           /\ release_type = "MINOR" => next_version = VersionString(ma, mi + 1, 0, 0)
           /\ release_type = "PATCH" => next_version = VersionString(ma, mi, pa + 1, 0)
           /\ ~Beta(next_version)
           /\ VersionLess(v, next_version)
           /\ release_type = "PATCH" =>
                 VersionLess(next_version, determine_next_version(v, "MINOR"))
           /\ release_type = "MINOR" =>
                 VersionLess(next_version, determine_next_version(v, "MAJOR"))
           /\ (v = VersionString(2, 3, 1, 0) /\ release_type = "MINOR") =>
                 next_version = VersionString(2, 4, 0, 0)

C12_Witness ==
    /\ pc = "resolved"
    /\ release_type = "MINOR"
    /\ Beta(last_released_version)
    /\ Patch(last_released_version) = <<"1">>

\* C13: a run on dev with a clean workarea and no version tag, locally or
\* on origin, ends with a non-zero exit at the read of the last version,
\* before the release type is asked, before any confirmation and before any
\* checkout, manifest write, commit, merge, tag or push.
C13_NoPriorVersionStops ==
    (StartedOnDev /\ ~pre.dirty /\ pre.tags \subseteq {INVALID_TAG}
       /\ pre.remote_tags = {}) =>
        /\ pc \in {"L155", "L157", "L161", "L163", "done"}
        /\ ~Did("input type")
        /\ ~Did("input confirm")
        /\ ~Did("input push")
        /\ NoMutation
        /\ next_version = Unbound
        /\ Ended => (exit_code = 1 /\ error = "IndexError" /\ error_line = 151)

C13_Witness ==
    Ended /\ StartedOnDev /\ pre.tags = {INVALID_TAG} /\ error = "IndexError"

\* every step of a full run was taken: both confirmations affirmed, the
\* manifest written and committed, the merge unless beta, the tag, both
\* pushes and the restore checkout at the end
AllStepsRan ==
    /\ IntentAffirmed
    /\ PushAffirmed
    /\ Did("write manifest")
    /\ Did("commit")
    /\ release_type # "BETA" => Did("merge")
    /\ DidOn("tag", tag_name)
    /\ DidOn("push", release_branch_name)
    /\ DidOn("push", tag_name)
    /\ log[Len(log)] = Entry("checkout", pre.cur, "")

\* C14: the exit code is 0 exactly when the run ended after all its steps;
\* a declined confirmation or a failure gives a non-zero exit code.
C14_ExitZeroIffCompleted ==
    /\ ~Ended => exit_code = -1
    /\ Ended => exit_code \in {0, 1}
    /\ Ended => (exit_code = 0 <=> (error = "none" /\ AllStepsRan))
    /\ (IntentDeclined \/ PushDeclined \/ error # "none") =>
          (Ended /\ exit_code = 1)

C14_Witness == Completed /\ release_type = "MINOR" /\ AllStepsRan

\* C15: from the manifest write to the version commit the checked-out branch
\* is release/<next>, and no commit of the run is on another branch.
C15_BumpCommittedOnReleaseBranch ==
    /\ pc \in {"L199", "L200", "L202"} => cur = ReleaseBranchOf(next_version)
    /\ \A i \in 1..Len(commits) : commits[i].on = ReleaseBranchOf(next_version)

\* position of the first entry of an operation in the log, 0 when absent
FirstOf(op) ==
    IF Did(op) THEN CHOOSE i \in 1..Len(log) :
                        log[i].op = op /\ \A j \in 1..(i - 1) : log[j].op # op
    ELSE 0

CountOf(op) == Cardinality({i \in 1..Len(log) : log[i].op = op})

\* C16: merge and tag come after the manifest write, the add and the commit,
\* the merge before the tag; and once the run has created its tag, the
\* manifest records the next version, in the workarea and at the tagged
\* commit.
C16_TagAndMergeAfterBump ==
    /\ (Did("merge") \/ Did("tag")) =>
          /\ DidOn("write manifest", next_version)
          /\ FirstOf("write manifest") < FirstOf("add")
          /\ FirstOf("add") < FirstOf("commit")
          /\ Did("merge") => FirstOf("commit") < FirstOf("merge")
          /\ Did("tag") => FirstOf("commit") < FirstOf("tag")
          /\ (Did("merge") /\ Did("tag")) => FirstOf("merge") < FirstOf("tag")
    /\ tagged # NoTag => manifest = next_version
    /\ tagged # NoTag => tagged.version = next_version

\* C17: after a declined push confirmation the run has ended, nothing was
\* pushed and origin is as before the run, while the version commit and the
\* tag of the run are still in the local repository.
C17_DeclinedPushKeepsLocalOnly ==
    PushDeclined =>
        /\ Ended
        /\ exit_code = 1
        /\ ~Did("push")
        /\ remote_branches = {}
        /\ remote_tags = pre.remote_tags
        /\ tag_name \in tags
        /\ Len(commits) = 1
        /\ commits[1].version = next_version
        /\ committed[commits[1].on] = next_version
        /\ branches = pre.branches

C17_Witness == PushDeclined /\ Ended /\ release_type = "MAJOR" /\ Did("merge")

\* the versions among the v* tags known after the fetch
VersionsAfterFetch ==
    {w \in {Tail(t) : t \in pre.tags \cup pre.remote_tags} : Valid(w)}

\* C18: on the dev path the tags are fetched before they are listed, and the
\* last released version is the greatest valid version among the tags known
\* after the fetch; a tag that is no version is ignored.
C18_LastReleasedIsMaxAfterFetch ==
    last_released_version # Unbound =>
        /\ Did("fetch --tags")
        /\ FirstOf("fetch --tags") < FirstOf("tag -l")
        /\ last_released_version \in VersionsAfterFetch
        /\ \A w \in VersionsAfterFetch :
              w = last_released_version \/ VersionLess(w, last_released_version)

C18_Witness ==
    /\ last_released_version # Unbound
    /\ Cardinality(VersionsAfterFetch) = 2
    /\ TagOf(last_released_version) \notin pre.tags

\* s holds sub as a run of consecutive tokens
Contains(s, sub) ==
    \E i \in 1..(Len(s) - Len(sub) + 1) : SubSeq(s, i, i + Len(sub) - 1) = sub

\* C19: the message of every version commit holds the next version.
C19_CommitMessageNamesVersion ==
    /\ \A i \in 1..Len(commits) : Contains(commits[i].message, next_version)
    /\ \A i \in 1..Len(log) :
          log[i].op = "commit" => Contains(log[i].arg, next_version)

\* C20: a run asks for the intent confirmation at most once and for the
\* push confirmation at most once, the push after the intent; what the
\* intent confirmation shows are the previous and next version of the run;
\* and a run on dev or on a release branch never reads a local that only
\* the other path assigns.
C20_OneConfirmationOwnPathValues ==
    /\ CountOf("input confirm") <= 1
    /\ CountOf("input push") <= 1
    /\ Did("input push") =>
          (Did("input confirm") /\ FirstOf("input confirm") < FirstOf("input push"))
    /\ \A i \in 1..Len(log) :
          /\ log[i].op = "print previous" =>
                (log[i].arg = last_released_version /\ log[i].arg # Unbound)
          /\ log[i].op = "input confirm" =>
                (log[i].arg = next_version /\ log[i].arg # Unbound)
    /\ (StartedOnDev \/ StartedOnRelease) => error # "UnboundLocalError"

====
